---- MODULE Spec2Model ----
(***************************************************************************)
(* Model of lsd/persistence/mongodb_rag_provider.py: MongoDbRagProvider    *)
(* (open, schema set-up, extract) and MongoDbSubRag (sync_nodes,           *)
(* sync_edges) run by independent workers against one shared MongoDB       *)
(* database.  A step of the model is one round trip to the store;          *)
(* documents are Python dicts, modelled as functions over string keys.     *)
(***************************************************************************)
EXTENDS Integers, Sequences, FiniteSets, TLC

\* ------------------------------------------------------------ bounds
\* node ids are 1..MaxNode
MaxNode == 2
\* at most MaxCopies documents with the same key (node id, edge (u, v)) are
\* alive at a time, in the store, in graphs and in flight
MaxCopies == 2

Workers == {"w1", "w2"}
NodeIds == 1..MaxNode
Modes == {"r", "r+", "w"}
Scores == {9}

\* ------------------------------------------------------------ geometry
\* The position every worker measures for node n (z, y, x).
Pos(n) == <<(n - 1) % 2, ((n - 1) \div 2) % 2, ((n - 1) \div 4) % 2>>

Roi(b, e) == [begin |-> b, end |-> e]

\* 3D regions handed to extract and sync_edges, and one 2D region.
Regions3 ==
    { Roi(<<0, 0, 0>>, <<1, 1, 1>>), Roi(<<1, 0, 0>>, <<2, 1, 1>>),
      Roi(<<0, 0, 0>>, <<2, 2, 2>>), Roi(<<0, 1, 0>>, <<2, 2, 2>>),
      Roi(<<0, 0, 1>>, <<2, 2, 2>>), Roi(<<0, 0, 0>>, <<1, 2, 2>>) }
Regions == Regions3 \cup { Roi(<<0, 0>>, <<2, 2>>) }

dims(roi) == Len(roi.begin)

\* daisy Roi.contains(Coordinate): begin <= p < end on every axis
contains(roi, p) ==
    \A i \in 1..Len(p) : roi.begin[i] <= p[i] /\ p[i] < roi.end[i]

\* ------------------------------------------------------------ dicts
NoDict == << >>
Keys(d) == DOMAIN d
remove_keys(d, keys) == [k \in (DOMAIN d) \ keys |-> d[k]]
\* d.update(data): the keys of data win
update(d, data) == data @@ d

CenterOf(n) ==
    ("center_z" :> Pos(n)[1]) @@ ("center_y" :> Pos(n)[2]) @@ ("center_x" :> Pos(n)[3])

\* ------------------------------------------------------------ state
VARIABLES
    nodes_collection,  \* documents of collection 'nodes'
    edges_collection,  \* documents of collection 'edges'
    collections,       \* names of the collections that exist in the database
    indexes,           \* names of the indexes that exist
    provider,          \* per worker: its MongoDbRagProvider or NoProvider
    graph,             \* per worker: its MongoDbSubRag or NoGraph
    pc,                \* per worker: position inside __init__ / __getitem__, or "returned"
    frame,             \* per worker: locals of the call in progress
    last               \* the call that returned in the latest step, if one did

vars == <<nodes_collection, edges_collection, collections, indexes,
          provider, graph, pc, frame, last>>

store == <<nodes_collection, edges_collection, collections, indexes>>

NoProvider == [mode |-> "none", client |-> FALSE]
NoGraph == [mode |-> "none", client |-> FALSE, node |-> << >>, edge |-> << >>]
NoFrame == [roi |-> Roi(<< >>, << >>), node_list |-> {}]
NoCall == [op |-> "none", w |-> "none", status |-> "none"]

Returned(op, w, status) == [op |-> op, w |-> w, status |-> status]

\* client.list_database_names(): a database is listed once it has a collection
list_database_names == IF collections = {} THEN {} ELSE {"db"}

Init ==
    /\ nodes_collection = {}
    /\ edges_collection = {}
    /\ collections = {}
    /\ indexes = {}
    /\ provider = [w \in Workers |-> NoProvider]
    /\ graph = [w \in Workers |-> NoGraph]
    /\ pc = [w \in Workers |-> "idle"]
    /\ frame = [w \in Workers |-> NoFrame]
    /\ last = NoCall

\* ------------------------------------------------------------ open
\* MongoDbRagProvider.__init__ up to list_database_names: connect and, in
\* mode 'w', drop the database.
Connect(w, mode) ==
    /\ pc[w] = "idle"
    /\ provider' = [provider EXCEPT ![w] = [mode |-> mode, client |-> TRUE]]
    /\ graph' = [graph EXCEPT ![w] = NoGraph]
    /\ UNCHANGED frame
    /\ pc' = [pc EXCEPT ![w] = "list_database_names"]
    /\ IF mode = "w"
       THEN /\ nodes_collection' = {}
            /\ edges_collection' = {}
            /\ collections' = {}
            /\ indexes' = {}
       ELSE UNCHANGED store
    /\ last' = NoCall

\* __disconnect, as the finally clause of __init__ and __getitem__ runs it
disconnect(p) == [p EXCEPT !.client = FALSE]

\* the test `self.db_name not in self.client.list_database_names()`
ListDatabaseNames(w) ==
    /\ pc[w] = "list_database_names"
    /\ IF "db" \notin list_database_names
       THEN /\ pc' = [pc EXCEPT ![w] = "create_index_position"]
            /\ last' = NoCall
            /\ UNCHANGED <<provider, frame>>
       ELSE /\ pc' = [pc EXCEPT ![w] = "returned"]
            /\ provider' = [provider EXCEPT ![w] = disconnect(@)]
            /\ frame' = [frame EXCEPT ![w] = NoFrame]
            /\ last' = Returned("open", w, "ok")
    /\ UNCHANGED <<store, graph>>

\* __setup_db: nodes.create_index(..., name='position')
CreateIndexPosition(w) ==
    /\ pc[w] = "create_index_position"
    /\ collections' = collections \cup {"nodes"}
    /\ indexes' = indexes \cup {"position"}
    /\ pc' = [pc EXCEPT ![w] = "create_index_id"]
    /\ last' = NoCall
    /\ UNCHANGED <<nodes_collection, edges_collection, provider, graph, frame>>

\* the key a unique index holds of a document
index_key(index, d) == IF index = "id" THEN <<d["id"]>> ELSE <<d["u"], d["v"]>>

\* a unique index cannot be built over documents that share the key
Unique(coll, index) ==
    \A d1, d2 \in coll : index_key(index, d1) = index_key(index, d2) => d1 = d2

\* __setup_db: nodes.create_index(..., name='id', unique=True)
CreateIndexId(w) ==
    /\ pc[w] = "create_index_id"
    /\ IF Unique(nodes_collection, "id")
       THEN /\ indexes' = indexes \cup {"id"}
            /\ collections' = collections \cup {"nodes"}
            /\ pc' = [pc EXCEPT ![w] = "create_index_incident"]
            /\ last' = NoCall
            /\ UNCHANGED <<provider, frame>>
       ELSE /\ UNCHANGED <<indexes, collections>>
            /\ pc' = [pc EXCEPT ![w] = "returned"]
            /\ provider' = [provider EXCEPT ![w] = NoProvider]
            /\ frame' = [frame EXCEPT ![w] = NoFrame]
            /\ last' = Returned("open", w, "OperationFailure")
    /\ UNCHANGED <<nodes_collection, edges_collection, graph>>

\* __setup_db: edges.create_index(..., name='incident', unique=True), then
\* the finally clause of __init__
CreateIndexIncident(w) ==
    /\ pc[w] = "create_index_incident"
    /\ IF Unique(edges_collection, "incident")
       THEN /\ indexes' = indexes \cup {"incident"}
            /\ collections' = collections \cup {"edges"}
            /\ provider' = [provider EXCEPT ![w] = disconnect(@)]
            /\ last' = Returned("open", w, "ok")
       ELSE /\ UNCHANGED <<indexes, collections>>
            /\ provider' = [provider EXCEPT ![w] = NoProvider]
            /\ last' = Returned("open", w, "OperationFailure")
    /\ pc' = [pc EXCEPT ![w] = "returned"]
    /\ frame' = [frame EXCEPT ![w] = NoFrame]
    /\ UNCHANGED <<nodes_collection, edges_collection, graph>>

\* ------------------------------------------------------------ extract
\* the range query with $lte in place of $lt
read_nodes_closed(roi) ==
    { d \in nodes_collection :
        /\ {"center_z", "center_y", "center_x"} \subseteq Keys(d)
        /\ roi.begin[1] <= d["center_z"] /\ d["center_z"] <= roi.end[1]
        /\ roi.begin[2] <= d["center_y"] /\ d["center_y"] <= roi.end[2]
        /\ roi.begin[3] <= d["center_x"] /\ d["center_x"] <= roi.end[3] }

\* collection.find with a range condition on the three position fields: a
\* document without one of the fields does not match
read_nodes(roi) ==
    { d \in nodes_collection :
        /\ {"center_z", "center_y", "center_x"} \subseteq Keys(d)
        /\ roi.begin[1] <= d["center_z"] /\ d["center_z"] < roi.end[1]
        /\ roi.begin[2] <= d["center_y"] /\ d["center_y"] < roi.end[2]
        /\ roi.begin[3] <= d["center_x"] /\ d["center_x"] < roi.end[3] }

\* the query matching either endpoint
read_edges_incident(node_ids) ==
    { e \in edges_collection : e["u"] \in node_ids \/ e["v"] \in node_ids }

\* the query matching both endpoints
read_edges_inside(node_ids) ==
    { e \in edges_collection : e["u"] \in node_ids /\ e["v"] \in node_ids }

\* edges.find({'u': {'$in': node_ids}})
read_edges(node_ids) == { e \in edges_collection : e["u"] \in node_ids }

\* handles that create the collections they name
open_db_creating(colls) == colls \cup {"nodes", "edges"}

\* __open_db: self.client[db_name], self.database['nodes'] and
\* self.database['edges'] are handles; taking them creates nothing, and
\* neither does a find on a collection that does not exist
open_db(colls) == colls

\* no test of the dimension
any_dimensional(roi) == TRUE

\* the test of `assert roi.dims() == 3`
three_dimensional(roi) == dims(roi) = 3

\* __getitem__ up to the node query: the dimension assertion, __connect,
\* __open_db, __read_nodes and the list of (id, attributes).  In
\* __read_nodes, `bz, by, bx = roi.get_begin()` raises ValueError for a
\* region that has not three axes, and the finally clause disconnects.
GetItemNodes(w, roi) ==
    /\ pc[w] = "idle"
    /\ provider[w].mode # "none"
    /\ IF ~ three_dimensional(roi)
       THEN /\ last' = Returned("extract", w, "AssertionError")
            /\ pc' = [pc EXCEPT ![w] = "returned"]
            /\ UNCHANGED <<provider, frame>>
       ELSE IF dims(roi) # 3
       THEN /\ last' = Returned("extract", w, "ValueError")
            /\ pc' = [pc EXCEPT ![w] = "returned"]
            /\ provider' = [provider EXCEPT ![w] = disconnect(@)]
            /\ UNCHANGED frame
       ELSE /\ provider' = [provider EXCEPT ![w].client = TRUE]
            /\ frame' = [frame EXCEPT ![w] =
                   [roi |-> roi,
                    node_list |-> { <<n["id"], remove_keys(n, {"id"})>> :
                                      n \in read_nodes(roi) }]]
            /\ pc' = [pc EXCEPT ![w] = "find_edges"]
            /\ last' = NoCall
    /\ collections' = IF dims(roi) = 3 /\ three_dimensional(roi)
                      THEN open_db(collections) ELSE collections
    /\ UNCHANGED <<nodes_collection, edges_collection, indexes, graph>>

\* networkx add_nodes_from / add_edges_from over a list that may name a key
\* more than once: one of the entries supplies the attributes
Assembled(pairs) ==
    LET ks == { p[1] : p \in pairs }
    IN  { f \in [ks -> { p[2] : p \in pairs }] : \A k \in ks : <<k, f[k]>> \in pairs }

\* add_edges_from adds the endpoints it does not know as nodes without
\* attributes
WithEndpoints(node, edge) ==
    LET ends == { k[1] : k \in DOMAIN edge } \cup { k[2] : k \in DOMAIN edge }
    IN  [n \in DOMAIN node \cup ends |-> IF n \in DOMAIN node THEN node[n] ELSE NoDict]

\* the key under which an undirected networkx Graph holds edge (a, b)
Pair(a, b) == IF a < b THEN <<a, b>> ELSE <<b, a>>

\* __getitem__ from the edge query on: the edge list, the finally clause and
\* the construction of the MongoDbSubRag
GetItemEdges(w) ==
    /\ pc[w] = "find_edges"
    /\ LET node_list == frame[w].node_list
           node_ids == { p[1] : p \in node_list }
           edge_list == { <<Pair(e["u"], e["v"]), remove_keys(e, {"u", "v"})>> :
                            e \in read_edges(node_ids) }
       IN  \E node \in Assembled(node_list), edge \in Assembled(edge_list) :
             graph' = [graph EXCEPT ![w] =
                 [mode |-> provider[w].mode, client |-> TRUE,
                  node |-> WithEndpoints(node, edge), edge |-> edge]]
    /\ provider' = [provider EXCEPT ![w] = disconnect(@)]
    /\ last' = Returned("extract", w, "ok")
    /\ frame' = [frame EXCEPT ![w] = NoFrame]
    /\ pc' = [pc EXCEPT ![w] = "returned"]
    /\ UNCHANGED store

\* ------------------------------------------------------------ the caller
\* the worker locates node n and records its centre in its sub-RAG
AddNode(w, n) ==
    /\ pc[w] = "idle"
    /\ graph[w].mode # "none"
    /\ IF n \in DOMAIN graph[w].node
       THEN "center_z" \notin Keys(graph[w].node[n])
       ELSE TRUE
    /\ graph' = [graph EXCEPT ![w].node =
           [m \in DOMAIN @ \cup {n} |->
               IF m = n
               THEN update(IF n \in DOMAIN @ THEN @[n] ELSE NoDict, CenterOf(n))
               ELSE @[m]]]
    /\ last' = NoCall
    /\ UNCHANGED <<store, provider, pc, frame>>

\* the worker records that a and b are adjacent
AddEdge(w, a, b, score) ==
    /\ pc[w] = "idle"
    /\ graph[w].mode # "none"
    /\ a # b
    /\ Pair(a, b) \notin DOMAIN graph[w].edge
    /\ LET edge == (Pair(a, b) :> ("score" :> score)) @@ graph[w].edge
       IN  graph' = [graph EXCEPT ![w].edge = edge,
                                  ![w].node = WithEndpoints(@, edge)]
    /\ last' = NoCall
    /\ UNCHANGED <<store, provider, pc, frame>>

\* add_edge(a, a, score=...): a networkx Graph takes an edge from a node to
\* itself
AddSelfLoop(w, a, score) ==
    /\ pc[w] = "idle"
    /\ graph[w].mode # "none"
    /\ Pair(a, a) \notin DOMAIN graph[w].edge
    /\ LET edge == (Pair(a, a) :> ("score" :> score)) @@ graph[w].edge
       IN  graph' = [graph EXCEPT ![w].edge = edge,
                                  ![w].node = WithEndpoints(@, edge)]
    /\ last' = NoCall
    /\ UNCHANGED <<store, provider, pc, frame>>

\* the worker takes the result of the call that returned, or catches what it
\* raised, and goes on
Resume(w) ==
    /\ pc[w] = "returned"
    /\ pc' = [pc EXCEPT ![w] = "idle"]
    /\ last' = NoCall
    /\ UNCHANGED <<store, provider, graph, frame>>

\* ------------------------------------------------------------ insert_many
\* the sequences that list every element of set S once
RECURSIVE Orders(_)
Orders(S) ==
    IF S = {} THEN { << >> }
    ELSE UNION { { <<x>> \o t : t \in Orders(S \ {x}) } : x \in S }

\* ObjectIds are unique and opaque: the model names the ObjectId of a
\* document <<key, c>>, c the least number that no living document of the
\* same key carries (in the store, in a graph or in flight).
Oids(docs) == { d["_id"] : d \in { x \in docs : "_id" \in Keys(x) } }
node_oids ==
    Oids(nodes_collection)
    \cup UNION { Oids({ graph[w].node[n] : n \in DOMAIN graph[w].node }) : w \in Workers }
    \cup UNION { Oids({ p[2] : p \in frame[w].node_list }) : w \in Workers }
edge_oids ==
    Oids(edges_collection)
    \cup UNION { Oids({ graph[w].edge[e] : e \in DOMAIN graph[w].edge }) : w \in Workers }

ObjectId(key, oids) ==
    <<key, CHOOSE c \in 1..(MaxCopies + 1) :
               /\ <<key, c>> \notin oids
               /\ \A b \in 1..(c - 1) : <<key, b>> \in oids>>

\* pymongo gives every document that has no _id a new ObjectId
RECURSIVE with_ids(_, _, _)
with_ids(docs, index, oids) ==
    IF docs = << >> THEN << >>
    ELSE IF "_id" \in Keys(Head(docs))
         THEN <<Head(docs)>> \o with_ids(Tail(docs), index, oids)
         ELSE LET oid == ObjectId(index_key(index, Head(docs)), oids)
              IN  <<("_id" :> oid) @@ Head(docs)>>
                  \o with_ids(Tail(docs), index, oids \cup {oid})

\* the bound on the copies of a document is respected
Bounded(docs) == \A i \in 1..Len(docs) : docs[i]["_id"][2] <= MaxCopies

\* a write the store refuses: the _id is taken, or the unique index of the
\* collection exists and has the key
duplicate_key(coll, doc, index, built) ==
    \E d \in coll :
        \/ d["_id"] = doc["_id"]
        \/ index \in built /\ index_key(index, d) = index_key(index, doc)

\* a batch written as upserts: a refused document replaces the ones it
\* collides with
RECURSIVE insert_many_replace(_, _, _, _)
insert_many_replace(coll, docs, index, built) ==
    IF docs = << >> THEN coll
    ELSE LET doc == Head(docs)
             hit == { d \in coll :
                        \/ d["_id"] = doc["_id"]
                        \/ index \in built /\ index_key(index, d) = index_key(index, doc) }
         IN  insert_many_replace((coll \ hit) \cup {doc}, Tail(docs), index, built)

\* insert_many(docs) as sync_nodes and sync_edges call it (ordered): the
\* documents are written one after the other and the first refused write
\* ends the batch.  The result is the collection after the call.
RECURSIVE insert_many(_, _, _, _)
insert_many(coll, docs, index, built) ==
    IF docs = << >> THEN coll
    ELSE IF duplicate_key(coll, Head(docs), index, built) THEN coll
         ELSE insert_many(coll \cup {Head(docs)}, Tail(docs), index, built)

\* ------------------------------------------------------------ sync
\* _contains that takes a node without position to lie inside
_contains_open(g, roi, edge) ==
    LET min_node == g.node[edge[1]]
    IN  IF "center_z" \notin Keys(min_node) THEN TRUE
        ELSE contains(roi, <<min_node["center_z"], min_node["center_y"],
                             min_node["center_x"]>>)

\* _contains that tests the other endpoint
_contains_max(g, roi, edge) ==
    LET max_node == g.node[edge[2]]
    IN  IF "center_z" \notin Keys(max_node) THEN FALSE
        ELSE contains(roi, <<max_node["center_z"], max_node["center_y"],
                             max_node["center_x"]>>)

\* MongoDbSubRag._contains
_contains(g, roi, edge) ==
    LET min_node == g.node[edge[1]]
    IN  IF "center_z" \notin Keys(min_node) THEN FALSE
        ELSE contains(roi, <<min_node["center_z"], min_node["center_y"],
                             min_node["center_x"]>>)

\* the endpoints taken as the graph hands them out
first(u, v) == u

min(u, v) == IF u <= v THEN u ELSE v
max(u, v) == IF u >= v THEN u ELSE v

\* self.edges(data=True) when the nodes are visited in the given order:
\* every edge once, from the endpoint that is visited first (a self-loop
\* from its node)
RECURSIVE edges(_, _)
edges(g, order) ==
    IF order = << >> THEN << >>
    ELSE LET n == Head(order)
             nbrs == SelectSeq(order, LAMBDA m : Pair(n, m) \in DOMAIN g.edge)
         IN  [i \in 1..Len(nbrs) |-> <<n, nbrs[i], g.edge[Pair(n, nbrs[i])]>>]
             \o edges(g, Tail(order))

\* the orders in which a graph may hand out its nodes
node_orders(g) == Orders(DOMAIN g.node)
\* the orders among the nodes that have an edge: self.edges() gets nothing
\* from a node without neighbours, wherever it stands in the order
edge_orders(g) ==
    Orders({ n \in DOMAIN g.node : \E e \in DOMAIN g.edge : n = e[1] \/ n = e[2] })

\* the loop of sync_edges: the documents of the edges roi owns
RECURSIVE edge_docs(_, _, _)
edge_docs(g, roi, es) ==
    IF es = << >> THEN << >>
    ELSE LET u == min(Head(es)[1], Head(es)[2])
             v == max(Head(es)[1], Head(es)[2])
         IN  IF ~ _contains(g, roi, <<u, v>>) THEN edge_docs(g, roi, Tail(es))
             ELSE <<update(("u" :> u) @@ ("v" :> v), Head(es)[3])>>
                  \o edge_docs(g, roi, Tail(es))

\* the loop of sync_nodes: one document per node of the graph
node_docs(g, order) ==
    [i \in 1..Len(order) |-> update("id" :> order[i], g.node[order[i]])]

Range(s) == { s[i] : i \in 1..Len(s) }

\* the batches sync_edges(roi) and sync_nodes() may hand to insert_many,
\* one per order of iteration
edge_batches(g, roi) == { edge_docs(g, roi, edges(g, o)) : o \in edge_orders(g) }
node_batches(g) == { node_docs(g, o) : o \in node_orders(g) }

\* insert_many(docs) on collection coll meets a write the store refuses
RECURSIVE refused(_, _, _, _)
refused(coll, docs, index, built) ==
    IF docs = << >> THEN FALSE
    ELSE IF duplicate_key(coll, Head(docs), index, built) THEN TRUE
         ELSE refused(coll \cup {Head(docs)}, Tail(docs), index, built)

\* how a sync call that reaches insert_many ends: pymongo raises TypeError
\* for an empty list of documents, and BulkWriteError when a write of the
\* batch is refused
Outcome(coll, sent, index, built) ==
    IF sent = << >> THEN "TypeError"
    ELSE IF refused(coll, sent, index, built) THEN "BulkWriteError" ELSE "ok"

\* no test of the length of the batch
never_empty(docs) == FALSE

\* the test `len(edges) == 0` / `len(nodes) == 0` that returns before
\* insert_many
empty(docs) == Len(docs) = 0

\* no test of the mode
never_read_only(g) == FALSE

\* the test `self.mode == 'r'` that opens sync_edges and sync_nodes
read_only(g) == g.mode = "r"

\* MongoDbSubRag.sync_edges, but for the position of the caller
sync_edges(w, roi) ==
    /\ graph[w].mode # "none"
    /\ IF read_only(graph[w])
       THEN /\ last' = Returned("sync_edges", w, "RuntimeError")
            /\ UNCHANGED store
       ELSE \E docs \in edge_batches(graph[w], roi) :
              IF empty(docs)
              THEN /\ last' = Returned("sync_edges", w, "ok")
                   /\ UNCHANGED store
              ELSE LET sent == with_ids(docs, "incident", edge_oids)
                       done == insert_many(edges_collection, sent, "incident", indexes)
                   IN  /\ Bounded(sent)
                       /\ edges_collection' = done
                       /\ collections' = collections \cup {"edges"}
                       /\ last' = Returned("sync_edges", w,
                                           Outcome(edges_collection, sent, "incident", indexes))
                       /\ UNCHANGED <<nodes_collection, indexes>>
    /\ UNCHANGED <<provider, graph, frame>>

SyncEdges(w, roi) ==
    /\ pc[w] = "idle"
    /\ sync_edges(w, roi)
    /\ pc' = [pc EXCEPT ![w] = "returned"]

\* MongoDbSubRag.sync_nodes
SyncNodes(w) ==
    /\ pc[w] = "idle"
    /\ graph[w].mode # "none"
    /\ IF read_only(graph[w])
       THEN /\ last' = Returned("sync_nodes", w, "RuntimeError")
            /\ UNCHANGED store
       ELSE \E docs \in node_batches(graph[w]) :
              IF empty(docs)
              THEN /\ last' = Returned("sync_nodes", w, "ok")
                   /\ UNCHANGED store
              ELSE LET sent == with_ids(docs, "id", node_oids)
                       done == insert_many(nodes_collection, sent, "id", indexes)
                   IN  /\ Bounded(sent)
                       /\ nodes_collection' = done
                       /\ collections' = collections \cup {"nodes"}
                       /\ last' = Returned("sync_nodes", w,
                                           Outcome(nodes_collection, sent, "id", indexes))
                       /\ UNCHANGED <<edges_collection, indexes>>
    /\ pc' = [pc EXCEPT ![w] = "returned"]
    /\ UNCHANGED <<provider, graph, frame>>

\* ------------------------------------------------------------ one worker
\* One worker uses the library: every call, every mode, every region.
Solo == {"w1"}

Next ==
    \E w \in Solo :
        \/ \E mode \in Modes : Connect(w, mode)
        \/ ListDatabaseNames(w)
        \/ CreateIndexPosition(w)
        \/ CreateIndexId(w)
        \/ CreateIndexIncident(w)
        \/ \E roi \in Regions : GetItemNodes(w, roi)
        \/ GetItemEdges(w)
        \/ \E n \in NodeIds : AddNode(w, n)
        \/ \E a, b \in NodeIds, score \in Scores : AddEdge(w, a, b, score)
        \/ SyncNodes(w)
        \/ \E roi \in Regions3 : SyncEdges(w, roi)
        \/ Resume(w)

Spec == Init /\ [][Next]_vars

\* ------------------------------------------------------------ self-loops
\* The worker of Spec, who also adds edges from a node to itself.
NextLoops ==
    \/ Next
    \/ \E w \in Solo, a \in NodeIds, score \in Scores : AddSelfLoop(w, a, score)

SpecLoops == Init /\ [][NextLoops]_vars

\* ------------------------------------------------------------ races
\* Every worker opens providers in any mode, extracts and syncs nodes while
\* the others do; the steps of the workers interleave at the round trips to
\* the store.  The workers compute one node.
RaceIds == {1}
RaceRegions ==
    { Roi(<<0, 0, 0>>, <<1, 1, 1>>), Roi(<<1, 0, 0>>, <<2, 1, 1>>), Roi(<<0, 0>>, <<2, 2>>) }

NextRace ==
    \E w \in Workers :
        \/ \E mode \in Modes : Connect(w, mode)
        \/ ListDatabaseNames(w)
        \/ CreateIndexPosition(w)
        \/ CreateIndexId(w)
        \/ CreateIndexIncident(w)
        \/ \E roi \in RaceRegions : GetItemNodes(w, roi)
        \/ GetItemEdges(w)
        \/ \E n \in RaceIds : AddNode(w, n)
        \/ SyncNodes(w)
        \/ Resume(w)

SpecRace == Init /\ [][NextRace]_vars

\* ------------------------------------------------------------ partition
\* The workers cover the space with the two halves along z; each has opened
\* the fresh database read-write and holds the (empty) sub-RAG of its half,
\* annotates it and calls sync_edges on its half once.
Tile(w) == IF w = "w1" THEN Roi(<<0, 0, 0>>, <<1, 2, 2>>)
                       ELSE Roi(<<1, 0, 0>>, <<2, 2, 2>>)

InitPartition ==
    /\ nodes_collection = {}
    /\ edges_collection = {}
    /\ collections = {"nodes", "edges"}
    /\ indexes = {"position", "id", "incident"}
    /\ provider = [w \in Workers |-> [mode |-> "r+", client |-> FALSE]]
    /\ graph = [w \in Workers |->
                   [mode |-> "r+", client |-> TRUE, node |-> << >>, edge |-> << >>]]
    /\ pc = [w \in Workers |-> "idle"]
    /\ frame = [w \in Workers |-> NoFrame]
    /\ last = NoCall

SyncEdgesOnce(w) ==
    /\ pc[w] = "idle"
    /\ sync_edges(w, Tile(w))
    /\ pc' = [pc EXCEPT ![w] = "done"]

NextPartition ==
    \E w \in Workers :
        \/ \E n \in NodeIds : AddNode(w, n)
        \/ \E a, b \in NodeIds, score \in Scores : AddEdge(w, a, b, score)
        \/ SyncEdgesOnce(w)

SpecPartition == InitPartition /\ [][NextPartition]_vars

\* ------------------------------------------------------------ properties
\* the vocabulary of the specification
IsFull(d) == {"center_z", "center_y", "center_x"} \subseteq DOMAIN d
IsStub(d) == DOMAIN d = {}
Center(d) == <<d["center_z"], d["center_y"], d["center_x"]>>
InRegion(roi, p) ==
    /\ roi.begin[1] <= p[1] /\ p[1] < roi.end[1]
    /\ roi.begin[2] <= p[2] /\ p[2] < roi.end[2]
    /\ roi.begin[3] <= p[3] /\ p[3] < roi.end[3]
EdgeKeys(docs) == { <<d["u"], d["v"]>> : d \in docs }
Lower(e) == IF e[1] < e[2] THEN e[1] ELSE e[2]
FullNodes(g) == { n \in DOMAIN g.node : IsFull(g.node[n]) }
\* the edges of graph g that region roi owns
Owned(g, roi) ==
    { e \in DOMAIN g.edge :
        IsFull(g.node[Lower(e)]) /\ InRegion(roi, Center(g.node[Lower(e)])) }
\* node n is persisted with a position inside roi
Located(n, roi) ==
    \E d \in nodes_collection : d["id"] = n /\ IsFull(d) /\ InRegion(roi, Center(d))
\* worker w returns from extract / from a sync call in this step
ExtractReturns(w) == pc[w] = "find_edges" /\ pc'[w] = "returned"
SyncReturns(w) == last'.w = w /\ last'.op \in {"sync_nodes", "sync_edges"}
Resets(w) ==
    pc[w] = "idle" /\ pc'[w] = "list_database_names" /\ provider'[w].mode = "w"

\* C1 (partition exclusivity): the workers hold sub-RAGs that agree on the
\* node positions and call sync_edges once each, on the halves of a tiling,
\* in any order: no edge key a worker is about to insert has been inserted
\* by another call, and no call ends in a duplicate-key conflict.
C1_PartitionExclusivity ==
    /\ \A w \in Workers :
         pc[w] = "idle" =>
           \A docs \in edge_batches(graph[w], Tile(w)) :
             EdgeKeys(Range(docs)) \cap EdgeKeys(edges_collection) = {}
    /\ last.op = "sync_edges" => last.status = "ok"

C1_Witness ==
    /\ \A w \in Workers : pc[w] = "done" /\ DOMAIN graph[w].edge # {}
    /\ edges_collection # {}

C3_OwnershipRule ==
    \A w \in Workers :
        pc[w] = "idle" =>
          \A order \in edge_orders(graph[w]) :
            LET es == edges(graph[w], order)
            IN  \A roi \in Regions3 :
                  LET sent == EdgeKeys(Range(edge_docs(graph[w], roi, es)))
                  IN  /\ sent = Owned(graph[w], roi)
                      /\ \A e \in DOMAIN graph[w].edge :
                           IsStub(graph[w].node[Lower(e)]) => e \notin sent

C3_Witness ==
    /\ last.op = "sync_edges" /\ last.status = "ok"
    /\ \E e \in DOMAIN graph[last.w].edge :
         /\ IsFull(graph[last.w].node[Lower(e)])
         /\ e \in EdgeKeys(edges_collection)

\* C4 (stub nodes are never persisted): every node row of the store carries
\* the position fields center_z, center_y, center_x.
C4_StubsNeverPersisted == \A d \in nodes_collection : IsFull(d)

\* C5 (store uniqueness): at most one node row per node id and at most one
\* edge row per (u, v), however opens, extracts and syncs interleave.
C5_StoreUniqueness ==
    /\ \A d1, d2 \in nodes_collection : d1["id"] = d2["id"] => d1 = d2
    /\ \A d1, d2 \in edges_collection :
         (d1["u"] = d2["u"] /\ d1["v"] = d2["v"]) => d1 = d2

\* C6 (range correctness): the Full nodes of the sub-RAG that extract(R)
\* returns are exactly the persisted nodes positioned inside R.
C6_RangeCorrectness ==
    [][\A w \in Workers :
         ExtractReturns(w) =>
           FullNodes(graph'[w]) =
             { d["id"] : d \in { x \in nodes_collection :
                                   IsFull(x) /\ InRegion(frame[w].roi, Center(x)) } }]_vars

C6_Witness ==
    /\ last.op = "extract" /\ last.status = "ok"
    /\ FullNodes(graph[last.w]) # {}
    /\ \E d \in nodes_collection : IsFull(d) /\ d["id"] \notin DOMAIN graph[last.w].node

\* C7 (boundary completeness): extract(R) returns exactly the persisted
\* edges whose u is a node returned for R, with their attributes; both
\* endpoints of every edge are nodes of the sub-RAG, and the endpoints that
\* were not fetched are Stubs, without position and attributes.
C7_BoundaryCompleteness ==
    [][\A w \in Workers :
         ExtractReturns(w) =>
           LET g == graph'[w]
               ids == { p[1] : p \in frame[w].node_list }
           IN  /\ { <<e[1], e[2], g.edge[e]>> : e \in DOMAIN g.edge } =
                    { <<r["u"], r["v"], [k \in (DOMAIN r) \ {"u", "v"} |-> r[k]]>> :
                        r \in { x \in edges_collection : x["u"] \in ids } }
               /\ ids = FullNodes(g)
               /\ \A e \in DOMAIN g.edge : {e[1], e[2]} \subseteq DOMAIN g.node
               /\ \A n \in (DOMAIN g.node) \ ids :
                    /\ IsStub(g.node[n])
                    /\ \E e \in DOMAIN g.edge : n \in {e[1], e[2]}]_vars

C7_Witness ==
    /\ last.op = "extract" /\ last.status = "ok"
    /\ \E e \in DOMAIN graph[last.w].edge :
         /\ IsFull(graph[last.w].node[e[1]])
         /\ IsStub(graph[last.w].node[e[2]])

\* C8 as claimed (incident-edge recovery): extract(R) recovers every
\* persisted edge that has an endpoint located in R.
C8_IncidentRecovery ==
    [][\A w \in Workers :
         ExtractReturns(w) =>
           \A r \in edges_collection :
             (Located(r["u"], frame[w].roi) \/ Located(r["v"], frame[w].roi))
               => <<r["u"], r["v"]>> \in DOMAIN graph'[w].edge]_vars

\* C8 as amended: extract(R) recovers the persisted edges whose lower-id
\* endpoint u is located in R, and only those.
C8_LowerEndpointRecovery ==
    [][\A w \in Workers :
         ExtractReturns(w) =>
           \A r \in edges_collection :
             /\ r["u"] < r["v"]
             /\ Located(r["u"], frame[w].roi)
                  <=> <<r["u"], r["v"]>> \in DOMAIN graph'[w].edge]_vars

C8_Witness ==
    /\ last.op = "extract" /\ last.status = "ok"
    /\ \E r \in edges_collection :
         /\ <<r["u"], r["v"]>> \notin DOMAIN graph[last.w].edge
         /\ r["v"] \in FullNodes(graph[last.w])

\* C9 (write-once store): a step that is not the database drop of a
\* reset-mode open leaves every node row and every edge row in the store,
\* with the content it had.
C9_WriteOnce ==
    [][(\E w \in Workers : Resets(w))
       \/ (/\ nodes_collection \subseteq nodes_collection'
           /\ edges_collection \subseteq edges_collection')]_vars

C9_Witness ==
    /\ last.op \in {"sync_nodes", "sync_edges"} /\ last.status = "BulkWriteError"
    /\ nodes_collection # {}
    /\ edges_collection # {}

\* C10 (read-only enforcement): a sync call on a sub-RAG in mode 'r', as
\* every sub-RAG of a provider opened in mode 'r' is, ends in RuntimeError
\* and leaves the store as it was.
C10_ReadOnlyEnforcement ==
    [][\A w \in Workers :
         /\ (ExtractReturns(w) /\ provider[w].mode = "r") => graph'[w].mode = "r"
         /\ (SyncReturns(w) /\ graph[w].mode = "r") =>
              /\ last'.status = "RuntimeError"
              /\ UNCHANGED store]_vars

C10_Witness ==
    /\ last.op = "sync_edges" /\ last.status = "RuntimeError"
    /\ provider[last.w].mode = "r"
    /\ Owned(graph[last.w], Roi(<<0, 0, 0>>, <<2, 2, 2>>)) # {}
    /\ nodes_collection # {}

\* worker w returns from sync_nodes / from sync_edges(roi) in this step
SyncNodesReturns(w) == last'.w = w /\ last'.op = "sync_nodes" /\ SyncNodes(w)
SyncEdgesReturns(w, roi) == last'.w = w /\ last'.op = "sync_edges" /\ SyncEdges(w, roi)

OpenSteps(w) ==
    /\ pc[w] \in {"list_database_names", "create_index_position",
                  "create_index_id", "create_index_incident"}
    /\ pc'[w] # pc[w]

\* C12 (open and schema): no step of an open in mode 'r' changes the
\* store, whether the database exists or not, and an open in mode 'r+'
\* that finds the database listed returns without changing it.
C12_ReadOnlyOpenNeverMutates ==
    [][\A w \in Workers :
         /\ (OpenSteps(w) /\ provider[w].mode = "r") => UNCHANGED store
         /\ (OpenSteps(w) /\ provider[w].mode = "r+" /\ pc[w] = "list_database_names"
                /\ "db" \in list_database_names) =>
              (UNCHANGED store /\ pc'[w] = "returned")]_vars

NodeKeys(docs) == { d["id"] : d \in docs }

\* C13 (partial batch success): after sync_nodes on a writable sub-RAG the
\* store holds a row for every node of the batch whose id it did not hold
\* before, and after sync_edges(roi) a row for every owned edge whose key
\* it did not hold before, whether or not other records of the batch
\* conflicted.
C13_PartialBatchSuccess ==
    [][\A w \in Workers :
         graph[w].mode # "r" =>
           /\ SyncNodesReturns(w) =>
                \A n \in DOMAIN graph[w].node :
                  n \notin NodeKeys(nodes_collection) => n \in NodeKeys(nodes_collection')
           /\ \A roi \in Regions3 :
                SyncEdgesReturns(w, roi) =>
                  \A e \in Owned(graph[w], roi) :
                    e \notin EdgeKeys(edges_collection) => e \in EdgeKeys(edges_collection')]_vars

\* a sync call of worker w on a writable sub-RAG whose batch holds a key
\* that is in the store already
NodeConflict(w) ==
    /\ graph[w].mode # "r"
    /\ SyncNodesReturns(w)
    /\ DOMAIN graph[w].node \cap NodeKeys(nodes_collection) # {}
EdgeConflict(w, roi) ==
    /\ graph[w].mode # "r"
    /\ SyncEdgesReturns(w, roi)
    /\ Owned(graph[w], roi) \cap EdgeKeys(edges_collection) # {}

\* C14 (duplicate-key conflicts are fatal and surfaced): a sync call whose
\* batch holds a node id, or an edge key, that the store holds already
\* ends in BulkWriteError and leaves the rows of the store as they were.
C14_ConflictsSurfaced ==
    [][\A w \in Workers :
         /\ NodeConflict(w) =>
              (last'.status = "BulkWriteError" /\ nodes_collection \subseteq nodes_collection')
         /\ \A roi \in Regions3 :
              EdgeConflict(w, roi) =>
                (last'.status = "BulkWriteError"
                   /\ edges_collection \subseteq edges_collection')]_vars

\* C14 where the unique indexes exist: the same, for the sync calls made
\* while index 'id', respectively 'incident', is in place.
C14_ConflictsSurfacedIndexed ==
    [][\A w \in Workers :
         /\ (NodeConflict(w) /\ "id" \in indexes) =>
              (last'.status = "BulkWriteError" /\ nodes_collection \subseteq nodes_collection')
         /\ \A roi \in Regions3 :
              (EdgeConflict(w, roi) /\ "incident" \in indexes) =>
                (last'.status = "BulkWriteError"
                   /\ edges_collection \subseteq edges_collection')]_vars

\* worker w is inside no call of the library
NoCallInProgress(w) == pc[w] \in {"idle", "returned"}

\* C15 (connection scope): while a worker is inside no call, neither its
\* provider nor its sub-RAG holds an open connection to the store.
C15_ConnectionScope ==
    \A w \in Workers :
        NoCallInProgress(w) => (~ provider[w].client /\ ~ graph[w].client)

\* the rows without the _id the store gave them
Fields(docs) == { remove_keys(d, {"_id"}) : d \in docs }

\* Scenario A on the model's grid: node 1 at (0,0,0) and node 2 at (1,0,0)
\* with edge (1, 2, {score: 9}) were synced; the region of the second
\* extract holds node 1 and not node 2.
ScenarioAStore ==
    /\ Fields(nodes_collection) =
          { update("id" :> 1, CenterOf(1)), update("id" :> 2, CenterOf(2)) }
    /\ Fields(edges_collection) = { ("u" :> 1) @@ ("v" :> 2) @@ ("score" :> 9) }
ScenarioARegion == Roi(<<0, 0, 0>>, <<1, 1, 1>>)
ScenarioAExtract(w) ==
    ScenarioAStore /\ ExtractReturns(w) /\ frame[w].roi = ScenarioARegion

C16_ScenarioAButId ==
    [][\A w \in Workers :
         ScenarioAExtract(w) =>
           /\ DOMAIN graph'[w].node = {1, 2}
           /\ remove_keys(graph'[w].node[1], {"_id"}) = CenterOf(1)
           /\ graph'[w].node[2] = NoDict
           /\ DOMAIN graph'[w].edge = {<<1, 2>>}
           /\ remove_keys(graph'[w].edge[<<1, 2>>], {"_id"}) = ("score" :> 9)]_vars

\* C17 (dimensionality check): extract on a region that has not three
\* axes ends in AssertionError at its first statement: no connection is
\* opened, no query is issued, and the store and the provider are as they
\* were.
C17_DimensionalityCheck ==
    [][\A w \in Workers : \A roi \in Regions :
         (dims(roi) # 3 /\ GetItemNodes(w, roi)) =>
           /\ last' = Returned("extract", w, "AssertionError")
           /\ pc'[w] = "returned"
           /\ UNCHANGED <<store, provider, graph, frame>>]_vars

C17_Witness ==
    /\ last.op = "extract" /\ last.status = "AssertionError"
    /\ ~ provider[last.w].client
    /\ nodes_collection # {}
    /\ edges_collection # {}

\* C18 (extract never mutates the store): every step of extract, in every
\* provider mode and for every region, whether the call goes on, returns
\* or fails, leaves the node rows, the edge rows, the collections and the
\* indexes as they were.
C18_ExtractNeverMutates ==
    [][\A w \in Workers :
         ((\E roi \in Regions : GetItemNodes(w, roi)) \/ GetItemEdges(w))
           => UNCHANGED store]_vars

C18_Witness ==
    /\ last.op = "extract" /\ last.status = "ok"
    /\ FullNodes(graph[last.w]) # {}
    /\ indexes # {"position", "id", "incident"}

\* C19 (canonical orientation at write): every edge row that sync_edges has
\* put into the store has u < v, whatever edges the in-memory sub-RAG holds
\* and in whatever orientation it hands them out.
C19_CanonicalOrientation ==
    \A d \in edges_collection : d["u"] < d["v"]

\* the same while no worker adds an edge from a node to itself
C19_CanonicalOrientationNoLoops ==
    \A d \in edges_collection : d["u"] # d["v"] => d["u"] < d["v"]

\* the nodes and edges of the sub-RAGs that __getitem__(roi) returns on the
\* store as it is
getitem(roi) ==
    LET node_list == { <<n["id"], remove_keys(n, {"id"})>> : n \in read_nodes(roi) }
        node_ids == { p[1] : p \in node_list }
        edge_list == { <<Pair(e["u"], e["v"]), remove_keys(e, {"u", "v"})>> :
                         e \in read_edges(node_ids) }
    IN  { [node |-> WithEndpoints(node, edge), edge |-> edge] :
            node \in Assembled(node_list), edge \in Assembled(edge_list) }
\* worker w holds, unmodified, what extract(roi) returns on the store as it is
Unmodified(w, roi) ==
    /\ pc[w] = "idle"
    /\ graph[w].mode # "none"
    /\ [node |-> graph[w].node, edge |-> graph[w].edge] \in getitem(roi)
\* the sync call that returns in this step was a no-op or ended in a
\* duplicate-key conflict (in mode 'r', in the refusal to write), and the
\* store is as it was
LeftUnchanged(w) ==
    /\ UNCHANGED store
    /\ last'.status \in IF graph[w].mode = "r" THEN {"RuntimeError"}
                        ELSE {"ok", "BulkWriteError"}
\* every Stub of the sub-RAG of worker w has a node row in the store
StubsPersisted(w) ==
    \A n \in DOMAIN graph[w].node :
        IsStub(graph[w].node[n]) => \E d \in nodes_collection : d["id"] = n

C20_RoundTripStubsPersisted ==
    [][\A w \in Workers : \A R \in Regions3 :
         ({"id", "incident"} \subseteq indexes /\ Unmodified(w, R) /\ StubsPersisted(w)) =>
            /\ SyncNodesReturns(w) => LeftUnchanged(w)
            /\ \A R2 \in Regions3 : SyncEdgesReturns(w, R2) => LeftUnchanged(w)]_vars
====
